---- MODULE Spec2Model ----
(***************************************************************************)
(* Model of the SSH backend's "config/ca" update handler, pathCAWrite, of  *)
(* builtin/logical/ssh/path_config_ca.go.  Two request slots run the       *)
(* handler concurrently against one shared storage; the handler's local    *)
(* variables are per slot, and the slots interleave at the two storage     *)
(* writes.                                                                 *)
(***************************************************************************)
EXTENDS Integers, Sequences, FiniteSets, TLC

\* ------------------------------------------------------------------ bounds
\* number of distinct externally supplied key pairs a caller may send
NumExt == 2
\* number of key pairs the generator can hand out in one behaviour
MaxGen == 2

\* the two request slots the framework dispatches on independent threads
Reqs == {"R1", "R2"}

\* ------------------------------------------------------------- key strings
\* A string is modelled by what the two parsers and the comparisons with ""
\* can tell about it: which half of which key pair it encodes, if any.
Empty == [half |-> "empty", origin |-> "none", id |-> 0]
Junk  == [half |-> "junk",  origin |-> "ext",  id |-> 0]
ExtPub(i)  == [half |-> "pub",  origin |-> "ext", id |-> i]
ExtPriv(i) == [half |-> "priv", origin |-> "ext", id |-> i]
GenPub(i)  == [half |-> "pub",  origin |-> "gen", id |-> i]
GenPriv(i) == [half |-> "priv", origin |-> "gen", id |-> i]

\* the values a caller puts in the public_key field: nothing, a string that
\* is no key at all, or the authorized-keys line of one of the pairs
PublicStrings == {Empty, Junk} \cup {ExtPub(i) : i \in 1..NumExt}

\* the values a caller puts in the private_key field
PrivateStrings == {Empty, Junk} \cup {ExtPriv(i) : i \in 1..NumExt}

\* tri-state presence of generate_signing_key
Flags == {"unset", "true", "false"}

\* data.GetOk("generate_signing_key"): ok is presence, raw the value
GetOk(flag) == [ok |-> flag # "unset", raw |-> flag = "true"]

\* ssh.ParsePrivateKey: succeeds exactly on an SSH private-key encoding
ParsePrivateKey(s) == s.half = "priv"

\* parsePublicSSHKey: succeeds exactly on an authorized-keys line
parsePublicSSHKey(s) == s.half = "pub"

\* --------------------------------------------------------------- messages
MsgConflict == "public_key and private_key must not be set when generate_signing_key is set to true"
MsgMissingPublic == "missing public_key"
MsgMissingPrivate == "missing private_key"
MsgParsePrivate == "Unable to parse private_key as an SSH private key: "
MsgParsePublic == "Unable to parse public_key as an SSH public key: "
MsgHalfSet == "only one of public_key and private_key set; both must be set to use, or both must be blank to auto-generate"
ErrInvariant == "failed to generate or parse the keys"
ErrGenerate == "generateSSHKeyPair error"
ErrPut == "Storage.Put error"
ErrJSON == "StorageEntryJSON error"
Nil == "nil"

\* a *logical.Response: nil, or a response whose data carries an error text
NilResponse == [isNil |-> TRUE, error |-> "", data |-> Empty]

\* logical.ErrorResponse(msg)
ErrorResponse(msg) == [isNil |-> FALSE, error |-> msg, data |-> Empty]

\* the (response, error) pair a handler returns
Return(response, err) == [response |-> response, err |-> err]

\* the slot has returned nothing yet
NoReturn == Return(NilResponse, "none")

\* ------------------------------------------------------------------ state
VARIABLES
    storage,             \* req.Storage: key -> <<>> (absent) or <<value>>
    pc,                  \* position of each request slot in pathCAWrite
    req,                 \* the field data of the request a slot is handling
    publicKey,           \* local variable publicKey
    privateKey,          \* local variable privateKey
    generateSigningKey,  \* local variable generateSigningKey
    resp,                \* the (response, error) the handler returned
    genNext,             \* number of key pairs the generator has produced
    genCalls,            \* per request: calls of generateSSHKeyPair so far
    puts,                \* per request: keys of the Puts issued so far
    latest,              \* the slot of the most recently dispatched request
    overlap,             \* that request began while another one was running
    after,               \* per request: storage as its success left it, if
                         \* no other request ran meanwhile; <<>> otherwise
    wrote,               \* per request: keys of its Puts that succeeded
    serial,              \* so far no request began while another one was
                         \* running, and no storage call failed
    lastPair             \* while serial: <<public, private>> of the most
                         \* recent successful request; <<>> otherwise

vars == <<storage, pc, req, publicKey, privateKey, generateSigningKey,
          resp, genNext, genCalls, puts, latest, overlap, after,
          wrote, serial, lastPair>>

StorageKeys == {"public_key", "config/ca_bundle"}

NoRequest == [public_key |-> Empty, private_key |-> Empty, generate_signing_key |-> "unset"]

Requests == [public_key : PublicStrings, private_key : PrivateStrings, generate_signing_key : Flags]

\* a slot whose handler has been entered and has not returned yet
Running(r) == pc[r] \in {"generate", "put_public", "put_bundle"}

\* a slot whose handler has returned and whose caller holds the result
Returned(r) == pc[r] \in {"done", "rejected", "internal_error"}

\* the request in slot r is the most recent one and ran with no other
\* request running between its dispatch and now
Alone(r) == latest = r /\ ~overlap

\* -------------------------------------------------------- pure operations
\* a switch whose second case is only 'explicitly set to false'
SwitchCaseFlagOnly(ok, raw, pub, priv) ==
    IF ok /\ raw
    THEN IF pub # Empty \/ priv # Empty
         THEN [case |-> "A", end |-> "reject", msg |-> MsgConflict]
         ELSE [case |-> "A", end |-> "flag", msg |-> Nil]
    ELSE IF ok
    THEN IF pub = Empty
         THEN [case |-> "B", end |-> "reject", msg |-> MsgMissingPublic]
         ELSE IF priv = Empty
         THEN [case |-> "B", end |-> "reject", msg |-> MsgMissingPrivate]
         ELSE IF ~ParsePrivateKey(priv)
         THEN [case |-> "B", end |-> "reject", msg |-> MsgParsePrivate]
         ELSE IF ~parsePublicSSHKey(pub)
         THEN [case |-> "B", end |-> "reject", msg |-> MsgParsePublic]
         ELSE [case |-> "B", end |-> "external", msg |-> Nil]
    ELSE IF pub = Empty /\ priv = Empty
    THEN [case |-> "C", end |-> "generate", msg |-> Nil]
    ELSE [case |-> "D", end |-> "reject", msg |-> MsgHalfSet]

\* a switch whose first case rejects only when both keys are set
SwitchCaseBothSet(ok, raw, pub, priv) ==
    IF ok /\ raw
    THEN IF pub # Empty /\ priv # Empty
         THEN [case |-> "A", end |-> "reject", msg |-> MsgConflict]
         ELSE [case |-> "A", end |-> "flag", msg |-> Nil]
    ELSE IF ok \/ (pub # Empty /\ priv # Empty)
    THEN IF pub = Empty
         THEN [case |-> "B", end |-> "reject", msg |-> MsgMissingPublic]
         ELSE IF priv = Empty
         THEN [case |-> "B", end |-> "reject", msg |-> MsgMissingPrivate]
         ELSE IF ~ParsePrivateKey(priv)
         THEN [case |-> "B", end |-> "reject", msg |-> MsgParsePrivate]
         ELSE IF ~parsePublicSSHKey(pub)
         THEN [case |-> "B", end |-> "reject", msg |-> MsgParsePublic]
         ELSE [case |-> "B", end |-> "external", msg |-> Nil]
    ELSE IF pub = Empty /\ priv = Empty
    THEN [case |-> "C", end |-> "generate", msg |-> Nil]
    ELSE [case |-> "D", end |-> "reject", msg |-> MsgHalfSet]

\* a switch that generates as soon as one of the keys is blank
SwitchCaseEitherBlank(ok, raw, pub, priv) ==
    IF ok /\ raw
    THEN IF pub # Empty \/ priv # Empty
         THEN [case |-> "A", end |-> "reject", msg |-> MsgConflict]
         ELSE [case |-> "A", end |-> "flag", msg |-> Nil]
    ELSE IF ok \/ (pub # Empty /\ priv # Empty)
    THEN IF pub = Empty
         THEN [case |-> "B", end |-> "reject", msg |-> MsgMissingPublic]
         ELSE IF priv = Empty
         THEN [case |-> "B", end |-> "reject", msg |-> MsgMissingPrivate]
         ELSE IF ~ParsePrivateKey(priv)
         THEN [case |-> "B", end |-> "reject", msg |-> MsgParsePrivate]
         ELSE IF ~parsePublicSSHKey(pub)
         THEN [case |-> "B", end |-> "reject", msg |-> MsgParsePublic]
         ELSE [case |-> "B", end |-> "external", msg |-> Nil]
    ELSE IF pub = Empty \/ priv = Empty
    THEN [case |-> "C", end |-> "generate", msg |-> Nil]
    ELSE [case |-> "D", end |-> "reject", msg |-> MsgHalfSet]

\* a switch that parses the public key before the private key
SwitchCasePublicFirst(ok, raw, pub, priv) ==
    IF ok /\ raw
    THEN IF pub # Empty \/ priv # Empty
         THEN [case |-> "A", end |-> "reject", msg |-> MsgConflict]
         ELSE [case |-> "A", end |-> "flag", msg |-> Nil]
    ELSE IF ok \/ (pub # Empty /\ priv # Empty)
    THEN IF pub = Empty
         THEN [case |-> "B", end |-> "reject", msg |-> MsgMissingPublic]
         ELSE IF priv = Empty
         THEN [case |-> "B", end |-> "reject", msg |-> MsgMissingPrivate]
         ELSE IF ~parsePublicSSHKey(pub)
         THEN [case |-> "B", end |-> "reject", msg |-> MsgParsePublic]
         ELSE IF ~ParsePrivateKey(priv)
         THEN [case |-> "B", end |-> "reject", msg |-> MsgParsePrivate]
         ELSE [case |-> "B", end |-> "external", msg |-> Nil]
    ELSE IF pub = Empty /\ priv = Empty
    THEN [case |-> "C", end |-> "generate", msg |-> Nil]
    ELSE [case |-> "D", end |-> "reject", msg |-> MsgHalfSet]

\* a switch that tests 'no key provided' before 'explicitly set to false'
SwitchCaseBlankFirst(ok, raw, pub, priv) ==
    IF ok /\ raw
    THEN IF pub # Empty \/ priv # Empty
         THEN [case |-> "A", end |-> "reject", msg |-> MsgConflict]
         ELSE [case |-> "A", end |-> "flag", msg |-> Nil]
    ELSE IF pub = Empty /\ priv = Empty
    THEN [case |-> "C", end |-> "generate", msg |-> Nil]
    ELSE IF ok \/ (pub # Empty /\ priv # Empty)
    THEN IF pub = Empty
         THEN [case |-> "B", end |-> "reject", msg |-> MsgMissingPublic]
         ELSE IF priv = Empty
         THEN [case |-> "B", end |-> "reject", msg |-> MsgMissingPrivate]
         ELSE IF ~ParsePrivateKey(priv)
         THEN [case |-> "B", end |-> "reject", msg |-> MsgParsePrivate]
         ELSE IF ~parsePublicSSHKey(pub)
         THEN [case |-> "B", end |-> "reject", msg |-> MsgParsePublic]
         ELSE [case |-> "B", end |-> "external", msg |-> Nil]
    ELSE IF pub = Empty /\ priv = Empty
    THEN [case |-> "C", end |-> "generate", msg |-> Nil]
    ELSE [case |-> "D", end |-> "reject", msg |-> MsgHalfSet]

\* a switch that sets generateSigningKey after it validated a supplied pair
SwitchCaseRegenerates(ok, raw, pub, priv) ==
    IF ok /\ raw
    THEN IF pub # Empty \/ priv # Empty
         THEN [case |-> "A", end |-> "reject", msg |-> MsgConflict]
         ELSE [case |-> "A", end |-> "flag", msg |-> Nil]
    ELSE IF ok \/ (pub # Empty /\ priv # Empty)
    THEN IF pub = Empty
         THEN [case |-> "B", end |-> "reject", msg |-> MsgMissingPublic]
         ELSE IF priv = Empty
         THEN [case |-> "B", end |-> "reject", msg |-> MsgMissingPrivate]
         ELSE IF ~ParsePrivateKey(priv)
         THEN [case |-> "B", end |-> "reject", msg |-> MsgParsePrivate]
         ELSE IF ~parsePublicSSHKey(pub)
         THEN [case |-> "B", end |-> "reject", msg |-> MsgParsePublic]
         ELSE [case |-> "B", end |-> "flag", msg |-> Nil]
    ELSE IF pub = Empty /\ priv = Empty
    THEN [case |-> "C", end |-> "generate", msg |-> Nil]
    ELSE [case |-> "D", end |-> "reject", msg |-> MsgHalfSet]

\* a switch that rejects a public key that is not the half of the private key
SwitchCaseCrossChecks(ok, raw, pub, priv) ==
    IF ok /\ raw
    THEN IF pub # Empty \/ priv # Empty
         THEN [case |-> "A", end |-> "reject", msg |-> MsgConflict]
         ELSE [case |-> "A", end |-> "flag", msg |-> Nil]
    ELSE IF ok \/ (pub # Empty /\ priv # Empty)
    THEN IF pub = Empty
         THEN [case |-> "B", end |-> "reject", msg |-> MsgMissingPublic]
         ELSE IF priv = Empty
         THEN [case |-> "B", end |-> "reject", msg |-> MsgMissingPrivate]
         ELSE IF ~ParsePrivateKey(priv)
         THEN [case |-> "B", end |-> "reject", msg |-> MsgParsePrivate]
         ELSE IF ~parsePublicSSHKey(pub)
         THEN [case |-> "B", end |-> "reject", msg |-> MsgParsePublic]
         ELSE IF pub.id # priv.id
         THEN [case |-> "B", end |-> "reject", msg |-> MsgParsePublic]
         ELSE [case |-> "B", end |-> "external", msg |-> Nil]
    ELSE IF pub = Empty /\ priv = Empty
    THEN [case |-> "C", end |-> "generate", msg |-> Nil]
    ELSE [case |-> "D", end |-> "reject", msg |-> MsgHalfSet]

\* the switch of pathCAWrite: which case is selected, and how it ends
\*   reject   - return an ErrorResponse with msg
\*   flag     - leave the switch with generateSigningKey = true
\*   external - leave the switch with the supplied pair
\*   generate - call generateSSHKeyPair inside the switch, then set the flag
SwitchCase(ok, raw, pub, priv) ==
    IF ok /\ raw
    THEN IF pub # Empty \/ priv # Empty
         THEN [case |-> "A", end |-> "reject", msg |-> MsgConflict]
         ELSE [case |-> "A", end |-> "flag", msg |-> Nil]
    ELSE IF ok \/ (pub # Empty /\ priv # Empty)
    THEN IF pub = Empty
         THEN [case |-> "B", end |-> "reject", msg |-> MsgMissingPublic]
         ELSE IF priv = Empty
         THEN [case |-> "B", end |-> "reject", msg |-> MsgMissingPrivate]
         ELSE IF ~ParsePrivateKey(priv)
         THEN [case |-> "B", end |-> "reject", msg |-> MsgParsePrivate]
         ELSE IF ~parsePublicSSHKey(pub)
         THEN [case |-> "B", end |-> "reject", msg |-> MsgParsePublic]
         ELSE [case |-> "B", end |-> "external", msg |-> Nil]
    ELSE IF pub = Empty /\ priv = Empty
    THEN [case |-> "C", end |-> "generate", msg |-> Nil]
    ELSE [case |-> "D", end |-> "reject", msg |-> MsgHalfSet]

\* a generator that can also return ("", "", nil)
generateSSHKeyPairSilent(n) ==
    {[pub |-> Empty, priv |-> Empty, err |-> ErrGenerate],
     [pub |-> Empty, priv |-> Empty, err |-> Nil]}
    \cup (IF n < MaxGen
          THEN {[pub |-> GenPub(n + 1), priv |-> GenPriv(n + 1), err |-> Nil]}
          ELSE {})

\* generateSSHKeyPair: a fresh pair, or ("", "", err); n pairs exist already
generateSSHKeyPair(n) ==
    {[pub |-> Empty, priv |-> Empty, err |-> ErrGenerate]}
    \cup (IF n < MaxGen
          THEN {[pub |-> GenPub(n + 1), priv |-> GenPriv(n + 1), err |-> Nil]}
          ELSE {})

\* []byte(publicKey): the raw bytes of the string
Bytes(s) == [bytes |-> s]

\* a bundle whose Certificate field was never set
signingBundleUnset(priv) == [Certificate |-> Empty]

\* signingBundle{Certificate: privateKey}
signingBundle(priv) == [Certificate |-> priv]

\* logical.StorageEntryJSON: the entry holding the serialized record
StorageEntryJSON(key, bundle) == [Key |-> key, Value |-> [json |-> <<<<"Certificate", bundle.Certificate>>>>]]

\* decoding of a stored bundle: the value of its Certificate field
DecodeCertificate(value) == value.json[1][2]

\* a StorageEntry literal
StorageEntry(key, value) == [Key |-> key, Value |-> value]

\* req.Storage.Put on success: the entry replaces what the key held
Put(st, entry) == [st EXCEPT ![entry.Key] = <<entry.Value>>]

\* ------------------------------------------------------------------- Init
Init ==
    /\ storage = [k \in StorageKeys |-> <<>>]
    /\ pc = [r \in Reqs |-> "idle"]
    /\ req = [r \in Reqs |-> NoRequest]
    /\ publicKey = [r \in Reqs |-> Empty]
    /\ privateKey = [r \in Reqs |-> Empty]
    /\ generateSigningKey = [r \in Reqs |-> FALSE]
    /\ resp = [r \in Reqs |-> NoReturn]
    /\ genNext = 0
    /\ genCalls = [r \in Reqs |-> 0]
    /\ puts = [r \in Reqs |-> <<>>]
    /\ latest = "none"
    /\ overlap = FALSE
    /\ after = [r \in Reqs |-> <<>>]
    /\ wrote = [r \in Reqs |-> <<>>]
    /\ serial = TRUE
    /\ lastPair = <<>>

\* ---------------------------------------------------------------- actions
\* a handler that hands the persisted private key back on success
FinishLeaking(r, to, result) ==
    /\ pc' = [pc EXCEPT ![r] = to]
    /\ resp' = [resp EXCEPT ![r] =
                    IF to = "done"
                    THEN Return([isNil |-> FALSE, error |-> "", data |-> privateKey[r]], Nil)
                    ELSE result]

\* the handler returns with (response, err)
Finish(r, to, result) ==
    /\ pc' = [pc EXCEPT ![r] = to]
    /\ resp' = [resp EXCEPT ![r] = result]

\* a rejection that has already written the supplied public key
RejectAfterPut(r, msg) ==
    /\ Finish(r, "rejected", Return(ErrorResponse(msg), Nil))
    /\ storage' = Put(storage, StorageEntry("public_key", Bytes(publicKey'[r])))
    /\ puts' = [puts EXCEPT ![r] = Append(@, "public_key")]

\* return logical.ErrorResponse(msg), nil: the request is rejected inside
\* the switch, before any storage call
Reject(r, msg) ==
    /\ Finish(r, "rejected", Return(ErrorResponse(msg), Nil))
    /\ UNCHANGED <<storage, puts>>

\* the framework dispatches an update request d to pathCAWrite, which reads
\* the fields and runs the switch statement (lines 46-94)
Dispatch(r) ==
    /\ pc[r] = "idle"
    /\ latest' = r
    /\ overlap' = \E t \in Reqs \ {r} : Running(t)
    /\ serial' = (serial /\ ~overlap')
    /\ lastPair' = IF serial' THEN lastPair ELSE <<>>
    /\ UNCHANGED <<after, wrote>>
    /\ \E d \in Requests :
        LET g == GetOk(d.generate_signing_key)
            c == SwitchCase(g.ok, g.raw, d.public_key, d.private_key)
        IN  /\ req' = [req EXCEPT ![r] = d]
            /\ \/ /\ c.end = "reject"
                  /\ publicKey' = [publicKey EXCEPT ![r] = d.public_key]
                  /\ privateKey' = [privateKey EXCEPT ![r] = d.private_key]
                  /\ Reject(r, c.msg)
                  /\ UNCHANGED <<generateSigningKey, genNext, genCalls>>
               \/ /\ c.end = "flag"
                  /\ generateSigningKey' = [generateSigningKey EXCEPT ![r] = TRUE]
                  /\ pc' = [pc EXCEPT ![r] = "generate"]
                  /\ publicKey' = [publicKey EXCEPT ![r] = d.public_key]
                  /\ privateKey' = [privateKey EXCEPT ![r] = d.private_key]
                  /\ UNCHANGED <<resp, genNext, genCalls, storage, puts>>
               \/ /\ c.end = "external"
                  /\ pc' = [pc EXCEPT ![r] = "generate"]
                  /\ publicKey' = [publicKey EXCEPT ![r] = d.public_key]
                  /\ privateKey' = [privateKey EXCEPT ![r] = d.private_key]
                  /\ UNCHANGED <<generateSigningKey, resp, genNext, genCalls, storage, puts>>
               \/ /\ c.end = "generate"
                  /\ UNCHANGED <<storage, puts>>
                  /\ genCalls' = [genCalls EXCEPT ![r] = @ + 1]
                  /\ \E k \in generateSSHKeyPair(genNext) :
                        /\ publicKey' = [publicKey EXCEPT ![r] = k.pub]
                        /\ privateKey' = [privateKey EXCEPT ![r] = k.priv]
                        /\ IF k.err # Nil
                           THEN /\ Finish(r, "internal_error", Return(NilResponse, k.err))
                                /\ UNCHANGED <<generateSigningKey, genNext>>
                           ELSE /\ generateSigningKey' = [generateSigningKey EXCEPT ![r] = TRUE]
                                /\ genNext' = genNext + 1
                                /\ pc' = [pc EXCEPT ![r] = "generate"]
                                /\ UNCHANGED resp

\* a generation step that reports a generator error in an ErrorResponse
GenerateAnswersUser(r) ==
    /\ pc[r] = "generate"
    /\ \E k \in (IF generateSigningKey[r]
                 THEN generateSSHKeyPair(genNext)
                 ELSE {[pub |-> publicKey[r], priv |-> privateKey[r], err |-> Nil]}) :
          /\ publicKey' = [publicKey EXCEPT ![r] = k.pub]
          /\ privateKey' = [privateKey EXCEPT ![r] = k.priv]
          /\ genCalls' = [genCalls EXCEPT ![r] = IF generateSigningKey[r] THEN @ + 1 ELSE @]
          /\ genNext' = IF generateSigningKey[r] /\ k.err = Nil THEN genNext + 1 ELSE genNext
          /\ IF k.err # Nil
             THEN Finish(r, "rejected", Return(ErrorResponse(k.err), Nil))
             ELSE IF k.pub = Empty \/ k.priv = Empty
             THEN Finish(r, "internal_error", Return(NilResponse, ErrInvariant))
             ELSE /\ pc' = [pc EXCEPT ![r] = "put_public"]
                  /\ UNCHANGED resp
    /\ UNCHANGED <<storage, req, generateSigningKey, puts, latest, overlap, after,
                   wrote, serial, lastPair>>

\* if generateSigningKey { ... } and the check of the resulting pair
\* (lines 96-105)
Generate(r) ==
    /\ pc[r] = "generate"
    /\ \E k \in (IF generateSigningKey[r]
                 THEN generateSSHKeyPair(genNext)
                 ELSE {[pub |-> publicKey[r], priv |-> privateKey[r], err |-> Nil]}) :
          /\ publicKey' = [publicKey EXCEPT ![r] = k.pub]
          /\ privateKey' = [privateKey EXCEPT ![r] = k.priv]
          /\ genCalls' = [genCalls EXCEPT ![r] = IF generateSigningKey[r] THEN @ + 1 ELSE @]
          /\ genNext' = IF generateSigningKey[r] /\ k.err = Nil THEN genNext + 1 ELSE genNext
          /\ IF k.err # Nil
             THEN Finish(r, "internal_error", Return(NilResponse, k.err))
             ELSE IF k.pub = Empty \/ k.priv = Empty
             THEN Finish(r, "internal_error", Return(NilResponse, ErrInvariant))
             ELSE /\ pc' = [pc EXCEPT ![r] = "put_public"]
                  /\ UNCHANGED resp
    /\ UNCHANGED <<storage, req, generateSigningKey, puts, latest, overlap, after,
                   wrote, serial, lastPair>>

\* a first Put whose Value is taken from privateKey
PutPublicOfPrivate(r) ==
    /\ pc[r] = "put_public"
    /\ puts' = [puts EXCEPT ![r] = Append(@, "public_key")]
    /\ \/ /\ storage' = Put(storage, StorageEntry("public_key", Bytes(privateKey[r])))
          /\ wrote' = [wrote EXCEPT ![r] = Append(@, "public_key")]
          /\ pc' = [pc EXCEPT ![r] = "put_bundle"]
          /\ UNCHANGED <<resp, serial, lastPair>>
       \/ /\ Finish(r, "internal_error", Return(NilResponse, ErrPut))
          /\ serial' = FALSE
          /\ lastPair' = <<>>
          /\ UNCHANGED <<storage, wrote>>
    /\ UNCHANGED <<req, publicKey, privateKey, generateSigningKey, genNext, genCalls, latest, overlap, after>>

\* a first Put whose error is not tested: the handler goes on to the bundle
PutPublicUnchecked(r) ==
    /\ pc[r] = "put_public"
    /\ puts' = [puts EXCEPT ![r] = Append(@, "public_key")]
    /\ pc' = [pc EXCEPT ![r] = "put_bundle"]
    /\ \/ /\ storage' = Put(storage, StorageEntry("public_key", Bytes(publicKey[r])))
          /\ wrote' = [wrote EXCEPT ![r] = Append(@, "public_key")]
          /\ UNCHANGED <<resp, serial, lastPair>>
       \/ /\ serial' = FALSE
          /\ lastPair' = <<>>
          /\ UNCHANGED <<resp, storage, wrote>>
    /\ UNCHANGED <<req, publicKey, privateKey, generateSigningKey, genNext, genCalls, latest, overlap, after>>

\* a first Put that is held back while another request is at its first Put
PutPublicWaiting(r) ==
    /\ \A t \in Reqs \ {r} : pc[t] # "put_public"
    /\ pc[r] = "put_public"
    /\ puts' = [puts EXCEPT ![r] = Append(@, "public_key")]
    /\ \/ /\ storage' = Put(storage, StorageEntry("public_key", Bytes(publicKey[r])))
          /\ wrote' = [wrote EXCEPT ![r] = Append(@, "public_key")]
          /\ pc' = [pc EXCEPT ![r] = "put_bundle"]
          /\ UNCHANGED <<resp, serial, lastPair>>
       \/ /\ Finish(r, "internal_error", Return(NilResponse, ErrPut))
          /\ serial' = FALSE
          /\ lastPair' = <<>>
          /\ UNCHANGED <<storage, wrote>>
    /\ UNCHANGED <<req, publicKey, privateKey, generateSigningKey, genNext, genCalls, latest, overlap, after>>

\* the first Put, of the public key (lines 107-113)
PutPublic(r) ==
    /\ pc[r] = "put_public"
    /\ puts' = [puts EXCEPT ![r] = Append(@, "public_key")]
    /\ \/ /\ storage' = Put(storage, StorageEntry("public_key", Bytes(publicKey[r])))
          /\ wrote' = [wrote EXCEPT ![r] = Append(@, "public_key")]
          /\ pc' = [pc EXCEPT ![r] = "put_bundle"]
          /\ UNCHANGED <<resp, serial, lastPair>>
       \/ /\ Finish(r, "internal_error", Return(NilResponse, ErrPut))
          /\ serial' = FALSE
          /\ lastPair' = <<>>
          /\ UNCHANGED <<storage, wrote>>
    /\ UNCHANGED <<req, publicKey, privateKey, generateSigningKey, genNext, genCalls, latest, overlap, after>>

\* a second Put that, when it fails, removes the public key written before
PutBundleRollingBack(r) ==
    /\ pc[r] = "put_bundle"
    /\ LET bundle == signingBundle(privateKey[r])
           entry == StorageEntryJSON("config/ca_bundle", bundle)
       IN  \/ /\ Finish(r, "internal_error", Return(NilResponse, ErrJSON))
              /\ serial' = FALSE
              /\ lastPair' = <<>>
              /\ UNCHANGED <<storage, puts, wrote>>
           \/ /\ puts' = [puts EXCEPT ![r] = Append(@, "config/ca_bundle")]
              /\ \/ /\ storage' = Put(storage, entry)
                    /\ wrote' = [wrote EXCEPT ![r] = Append(@, "config/ca_bundle")]
                    /\ lastPair' = IF serial THEN <<publicKey[r], privateKey[r]>> ELSE <<>>
                    /\ Finish(r, "done", Return(NilResponse, Nil))
                    /\ UNCHANGED serial
                 \/ /\ Finish(r, "internal_error", Return(NilResponse, ErrPut))
                    /\ serial' = FALSE
                    /\ lastPair' = <<>>
                    /\ storage' = [storage EXCEPT !["public_key"] = <<>>]
                    /\ UNCHANGED wrote
    /\ after' = [after EXCEPT ![r] = IF pc'[r] = "done" /\ Alone(r) THEN <<storage'>> ELSE <<>>]
    /\ UNCHANGED <<req, publicKey, privateKey, generateSigningKey, genNext, genCalls, latest, overlap>>

\* the bundle, its serialization and the second Put (lines 115-125)
PutBundle(r) ==
    /\ pc[r] = "put_bundle"
    /\ LET bundle == signingBundle(privateKey[r])
           entry == StorageEntryJSON("config/ca_bundle", bundle)
       IN  \/ /\ Finish(r, "internal_error", Return(NilResponse, ErrJSON))
              /\ serial' = FALSE
              /\ lastPair' = <<>>
              /\ UNCHANGED <<storage, puts, wrote>>
           \/ /\ puts' = [puts EXCEPT ![r] = Append(@, "config/ca_bundle")]
              /\ \/ /\ storage' = Put(storage, entry)
                    /\ wrote' = [wrote EXCEPT ![r] = Append(@, "config/ca_bundle")]
                    /\ lastPair' = IF serial THEN <<publicKey[r], privateKey[r]>> ELSE <<>>
                    /\ Finish(r, "done", Return(NilResponse, Nil))
                    /\ UNCHANGED serial
                 \/ /\ Finish(r, "internal_error", Return(NilResponse, ErrPut))
                    /\ serial' = FALSE
                    /\ lastPair' = <<>>
                    /\ UNCHANGED <<storage, wrote>>
    /\ after' = [after EXCEPT ![r] = IF pc'[r] = "done" /\ Alone(r) THEN <<storage'>> ELSE <<>>]
    /\ UNCHANGED <<req, publicKey, privateKey, generateSigningKey, genNext, genCalls, latest, overlap>>

\* the caller has its answer; the slot is free for the next request
Release(r) ==
    /\ Returned(r)
    /\ pc' = [pc EXCEPT ![r] = "idle"]
    /\ req' = [req EXCEPT ![r] = NoRequest]
    /\ publicKey' = [publicKey EXCEPT ![r] = Empty]
    /\ privateKey' = [privateKey EXCEPT ![r] = Empty]
    /\ generateSigningKey' = [generateSigningKey EXCEPT ![r] = FALSE]
    /\ resp' = [resp EXCEPT ![r] = NoReturn]
    /\ genCalls' = [genCalls EXCEPT ![r] = 0]
    /\ puts' = [puts EXCEPT ![r] = <<>>]
    /\ after' = [after EXCEPT ![r] = <<>>]
    /\ wrote' = [wrote EXCEPT ![r] = <<>>]
    /\ UNCHANGED <<storage, genNext, latest, overlap, serial, lastPair>>

Next ==
    \E r \in Reqs :
        \/ Dispatch(r)
        \/ Generate(r)
        \/ PutPublic(r)
        \/ PutBundle(r)
        \/ Release(r)

Spec == Init /\ [][Next]_vars

\* the handler runs on its own thread and the generator and storage calls
\* return: a handler that can take its next step eventually takes it
Fairness ==
    \A r \in Reqs :
        /\ WF_vars(Generate(r))
        /\ WF_vars(PutPublic(r))
        /\ WF_vars(PutBundle(r))

\* two requests on a fresh mount, one per slot: the steps of the handler,
\* without the slot being handed a further request
NextOnce ==
    \E r \in Reqs :
        \/ Dispatch(r)
        \/ Generate(r)
        \/ PutPublic(r)
        \/ PutBundle(r)

SpecFair == Init /\ [][NextOnce]_vars /\ Fairness

TypeOK ==
    /\ \A r \in Reqs : pc[r] \in {"idle", "generate", "put_public",
                                  "put_bundle", "done", "rejected", "internal_error"}
    /\ genNext \in 0..MaxGen

\* ----------------------------------------------------- reading the state
\* the slot's request has been dispatched and its data is still held
Active(r) == pc[r] # "idle"

\* the text of the ErrorResponse the slot returned, "" when it returned none
Message(r) == resp[r].response.error

\* the user-facing rejections of pathCAWrite
ValidationMessages ==
    {MsgConflict, MsgMissingPublic, MsgMissingPrivate, MsgParsePrivate, MsgParsePublic, MsgHalfSet}

\* both records are present in storage
BothStored == storage["public_key"] # <<>> /\ storage["config/ca_bundle"] # <<>>

\* storage holds exactly the public key pub and a bundle naming priv
Holds(pub, priv) ==
    /\ storage["public_key"] = <<Bytes(pub)>>
    /\ Len(storage["config/ca_bundle"]) = 1
    /\ DecodeCertificate(storage["config/ca_bundle"][1]) = priv

\* a step in which slot r is dispatched (and its switch is run)
DispatchStep(r) == pc[r] = "idle" /\ pc'[r] # "idle"

\* ------------------------------------------------------------------ claims
\* C1: a request that ends in a user-facing rejection (any of the six
\* ValidationError messages) leaves the records "public_key" and
\* "config/ca_bundle" exactly as they were before it, and has issued no Put.
C1_RejectionLeavesStorage ==
    [][\A r \in Reqs :
          (DispatchStep(r) /\ resp'[r].response.error \in ValidationMessages)
              => /\ storage' = storage
                 /\ puts'[r] = <<>>
                 /\ pc'[r] = "rejected"]_vars

\* a rejection has happened on top of a storage that already held both records
C1_Witness ==
    \E r \in Reqs :
        /\ pc[r] = "rejected"
        /\ Message(r) \in ValidationMessages
        /\ Alone(r)
        /\ BothStored

\* C2: after an update request that returned success both records exist, and
\* when no other request ran concurrently they are the public and the private
\* half of the request's resolved pair: the supplied pair on accept-external,
\* the two halves of one generated pair on generate.
C2_SuccessStoresOnePair ==
    \A r \in Reqs :
        pc[r] = "done" =>
            /\ BothStored
            /\ Alone(r) =>
                  /\ Holds(publicKey[r], privateKey[r])
                  /\ IF genCalls[r] = 0
                     THEN /\ publicKey[r] = req[r].public_key
                          /\ privateKey[r] = req[r].private_key
                     ELSE /\ publicKey[r].origin = "gen" /\ publicKey[r].half = "pub"
                          /\ privateKey[r].origin = "gen" /\ privateKey[r].half = "priv"
                          /\ publicKey[r].id = privateKey[r].id

\* a generating request succeeded on its own, after an earlier request had
\* stored a supplied pair
C2_Witness ==
    \E r \in Reqs :
        /\ pc[r] = "done"
        /\ Alone(r)
        /\ genCalls[r] > 0
        /\ \E s \in Reqs \ {r} : pc[s] = "done" /\ genCalls[s] = 0

\* C3: with both keys parseable and the flag unset or explicitly false the
\* request is never rejected and fails only on a storage failure; once it has
\* succeeded on its own, "public_key" holds the supplied public key and the
\* bundle's Certificate the supplied private key, whichever of the two flag
\* settings was used.
C3_ExternalPairStored ==
    \A r \in Reqs :
        (/\ Active(r)
         /\ req[r].generate_signing_key \in {"unset", "false"}
         /\ parsePublicSSHKey(req[r].public_key)
         /\ ParsePrivateKey(req[r].private_key))
        => /\ pc[r] # "rejected"
           /\ genCalls[r] = 0
           /\ pc[r] = "internal_error" => resp[r].err \in {ErrPut, ErrJSON}
           /\ (pc[r] = "done" /\ Alone(r)) => Holds(req[r].public_key, req[r].private_key)

\* an explicit opt-out with a parseable pair has succeeded on its own, over
\* records an earlier request left
C3_Witness ==
    \E r \in Reqs :
        /\ pc[r] = "done"
        /\ Alone(r)
        /\ req[r].generate_signing_key = "false"
        /\ parsePublicSSHKey(req[r].public_key)
        /\ ParsePrivateKey(req[r].private_key)
        /\ \E s \in Reqs \ {r} : pc[s] = "done" /\ publicKey[s] # publicKey[r]

\* C4: a request with generate_signing_key explicitly true and a non-empty
\* public_key or private_key is answered with the conflict message; no key
\* pair is generated and storage is unchanged.
C4_ConflictRejected ==
    [][\A r \in Reqs :
          (/\ DispatchStep(r)
           /\ req'[r].generate_signing_key = "true"
           /\ (req'[r].public_key # Empty \/ req'[r].private_key # Empty))
          => /\ pc'[r] = "rejected"
             /\ resp'[r] = Return(ErrorResponse(MsgConflict), Nil)
             /\ genCalls'[r] = 0
             /\ genNext' = genNext
             /\ puts'[r] = <<>>
             /\ storage' = storage]_vars

\* the conflict answer was given to a request that set the flag and only one key
C4_Witness ==
    \E r \in Reqs :
        /\ pc[r] = "rejected"
        /\ Message(r) = MsgConflict
        /\ req[r].generate_signing_key = "true"
        /\ req[r].public_key # Empty
        /\ req[r].private_key = Empty

\* C5: a request with generate_signing_key unset and exactly one of
\* public_key, private_key non-empty is answered with the half-set message,
\* and storage is unchanged.
C5_HalfSetRejected ==
    [][\A r \in Reqs :
          (/\ DispatchStep(r)
           /\ req'[r].generate_signing_key = "unset"
           /\ (req'[r].public_key # Empty) # (req'[r].private_key # Empty))
          => /\ pc'[r] = "rejected"
             /\ resp'[r] = Return(ErrorResponse(MsgHalfSet), Nil)
             /\ genCalls'[r] = 0
             /\ puts'[r] = <<>>
             /\ storage' = storage]_vars

\* the half-set answer was given to a request that supplied only a private key
C5_Witness ==
    \E r \in Reqs :
        /\ pc[r] = "rejected"
        /\ Message(r) = MsgHalfSet
        /\ req[r].generate_signing_key = "unset"
        /\ req[r].public_key = Empty
        /\ req[r].private_key # Empty

\* C6: when two update requests have both succeeded, each record is exactly
\* the value one of the two wrote: "public_key" is the bytes of one request's
\* public key and the bundle names one request's private key.  Nothing in the
\* handler excludes the mixed outcome (see C6_Witness).
C6_RecordsComeFromTheTwo ==
    (\A r \in Reqs : pc[r] = "done") =>
        /\ \E r \in Reqs : storage["public_key"] = <<Bytes(publicKey[r])>>
        /\ Len(storage["config/ca_bundle"]) = 1
        /\ \E r \in Reqs : DecodeCertificate(storage["config/ca_bundle"][1]) = privateKey[r]

\* two requests with different pairs overlapped and both succeeded, and the
\* public key stored is R1's while the bundle stored is R2's
C6_Witness ==
    /\ \A r \in Reqs : pc[r] = "done"
    /\ overlap
    /\ publicKey["R1"] # publicKey["R2"]
    /\ privateKey["R1"] # privateKey["R2"]
    /\ Holds(publicKey["R1"], privateKey["R2"])

\* C7: the private key is never returned: a successful request returns
\* (nil, nil), and two requests that differ only in the value of a parseable
\* private_key get the same response.
C7_PrivateKeyNotReturned ==
    /\ \A r \in Reqs : pc[r] = "done" => resp[r] = Return(NilResponse, Nil)
    /\ \A r \in Reqs : Returned(r) => resp[r].response.data = Empty
    /\ \A r, s \in Reqs :
          (/\ Returned(r) /\ Returned(s)
           /\ req[r].generate_signing_key = req[s].generate_signing_key
           /\ req[r].public_key = req[s].public_key
           /\ ParsePrivateKey(req[r].private_key)
           /\ ParsePrivateKey(req[s].private_key))
          => resp[r].response = resp[s].response

\* two successful requests that differ only in their parseable private key
C7_Witness ==
    /\ \A r \in Reqs : pc[r] = "done"
    /\ req["R1"].generate_signing_key = req["R2"].generate_signing_key
    /\ req["R1"].public_key = req["R2"].public_key
    /\ ParsePrivateKey(req["R1"].private_key)
    /\ ParsePrivateKey(req["R2"].private_key)
    /\ req["R1"].private_key # req["R2"].private_key

\* the request of slot r supplies a parseable pair that is accepted as it is
AcceptsExternal(r) ==
    /\ req[r].generate_signing_key \in {"unset", "false"}
    /\ parsePublicSSHKey(req[r].public_key)
    /\ ParsePrivateKey(req[r].private_key)

\* C8: accept-external is idempotent: when a request with a parseable
\* supplied pair has succeeded with no other request running, and the same
\* request is issued again while storage is as the first one left it, no step
\* of the second request changes storage.
C8_ExternalIdempotent ==
    [][\A r, s \in Reqs :
          (/\ r # s
           /\ pc[s] = "done"
           /\ AcceptsExternal(s)
           /\ after[s] = <<storage>>
           /\ Running(r)
           /\ req[r] = req[s]
           /\ pc'[r] # pc[r])
          => storage' = storage]_vars

\* the same supplied pair was written twice in sequence, both times with
\* success, and storage is as the first request left it
C8_Witness ==
    \E r, s \in Reqs :
        /\ r # s
        /\ pc[s] = "done"
        /\ pc[r] = "done"
        /\ Alone(r)
        /\ AcceptsExternal(s)
        /\ req[r] = req[s]
        /\ puts[r] = <<"public_key", "config/ca_bundle">>
        /\ after[s] = <<storage>>

\* C9: with generate_signing_key explicitly false the second case of the
\* switch applies whatever keys are supplied: an empty public_key (also when
\* both are empty) gives "missing public_key", a non-empty public_key with an
\* empty private_key gives "missing private_key"; the half-set message and
\* the generator are never reached.
C9_ExplicitFalse ==
    \A r \in Reqs :
        (Active(r) /\ req[r].generate_signing_key = "false")
        => /\ req[r].public_key = Empty
                => (pc[r] = "rejected" /\ resp[r] = Return(ErrorResponse(MsgMissingPublic), Nil))
           /\ (req[r].public_key # Empty /\ req[r].private_key = Empty)
                => (pc[r] = "rejected" /\ resp[r] = Return(ErrorResponse(MsgMissingPrivate), Nil))
           /\ Message(r) # MsgHalfSet
           /\ genCalls[r] = 0
           /\ ~generateSigningKey[r]

\* an explicit false with no key at all was answered "missing public_key"
C9_Witness ==
    \E r \in Reqs :
        /\ pc[r] = "rejected"
        /\ req[r] = [public_key |-> Empty, private_key |-> Empty, generate_signing_key |-> "false"]
        /\ Message(r) = MsgMissingPublic

\* the decision table of the specification, rows A to D, first match wins
DecisionTable(flag, pub, priv) ==
    IF flag = "true"
    THEN IF pub # Empty \/ priv # Empty THEN MsgConflict ELSE "generate"
    ELSE IF flag = "false" \/ (flag = "unset" /\ pub # Empty /\ priv # Empty)
    THEN IF pub = Empty THEN MsgMissingPublic
         ELSE IF priv = Empty THEN MsgMissingPrivate
         ELSE IF priv.half # "priv" THEN MsgParsePrivate
         ELSE IF pub.half # "pub" THEN MsgParsePublic
         ELSE "accept-external"
    ELSE IF flag = "unset" /\ pub = Empty /\ priv = Empty
    THEN "generate"
    ELSE MsgHalfSet

\* what the handler did with the request of slot r
Outcome(r) ==
    IF pc[r] = "rejected" THEN Message(r)
    ELSE IF genCalls[r] > 0 \/ generateSigningKey[r] THEN "generate"
    ELSE "accept-external"

\* C10: for every combination of the flag (unset, true, false) and of each
\* key (empty, unparseable, parseable) the handler generates, accepts the
\* supplied pair or rejects with a message exactly as the first matching row
\* of the decision table prescribes.
C10_SwitchIsDecisionTable ==
    \A r \in Reqs :
        Active(r) =>
            /\ Outcome(r) = DecisionTable(req[r].generate_signing_key,
                                          req[r].public_key, req[r].private_key)
            /\ Outcome(r) \in ValidationMessages <=> pc[r] = "rejected"

\* with the flag unset and two unparseable keys the answer names the private key
C10_Witness ==
    \E r \in Reqs :
        /\ pc[r] = "rejected"
        /\ req[r] = [public_key |-> Junk, private_key |-> Junk, generate_signing_key |-> "unset"]
        /\ Message(r) = MsgParsePrivate

\* the request of slot r is on a generate path: the flag explicitly true, or
\* unset, with both keys empty
GeneratePath(r) ==
    /\ req[r].generate_signing_key \in {"true", "unset"}
    /\ req[r].public_key = Empty
    /\ req[r].private_key = Empty

\* the request of slot r has passed key resolution and reached the Puts
Resolved(r) == pc[r] \in {"put_public", "put_bundle", "done"}

\* C11: on every generate path (flag true with both keys empty, flag unset
\* with both keys empty) a request calls generateSSHKeyPair exactly once, and
\* the pair it goes on to persist is the output of that one call.
C11_GeneratesOnce ==
    \A r \in Reqs :
        (Active(r) /\ GeneratePath(r) /\ Resolved(r))
        => /\ genCalls[r] = 1
           /\ publicKey[r].origin = "gen"
           /\ privateKey[r] = GenPriv(publicKey[r].id)

\* the orders in which a request may have issued its Puts so far
PutOrders == {<<>>, <<"public_key">>, <<"public_key", "config/ca_bundle">>}

\* C12: within one request the Put of "public_key" comes before the Put of
\* "config/ca_bundle", the bundle Put is attempted only after the public-key
\* Put returned without error, and no request has written the bundle without
\* having written the public key.
C12_PublicKeyFirst ==
    \A r \in Reqs :
        /\ puts[r] \in PutOrders
        /\ wrote[r] \in PutOrders
        /\ Len(wrote[r]) <= Len(puts[r])
        /\ Len(puts[r]) = 2 => Len(wrote[r]) >= 1

\* a request attempted the bundle Put after its public-key Put succeeded, and
\* the bundle Put failed
C12_Witness ==
    \E r \in Reqs :
        /\ puts[r] = <<"public_key", "config/ca_bundle">>
        /\ wrote[r] = <<"public_key">>
        /\ pc[r] = "internal_error"

\* a step of the handler in slot r (the request is dispatched or advances)
HandlerStep(r) == ~Returned(r) /\ pc'[r] # pc[r]

\* C13: a request that ends in an internal error has updated storage in part
\* (its public key written, the bundle left as it was) exactly when the
\* failure came after its first Put succeeded - the bundle could not be
\* serialized or the second Put failed; the failing step rolls nothing back,
\* and a failure of the first Put (or any earlier failure) leaves both
\* records as they were.
C13_PartialUpdate ==
    [][\A r \in Reqs :
          HandlerStep(r) =>
              /\ wrote'[r] = wrote[r] => storage' = storage
              /\ (wrote[r] = <<>> /\ wrote'[r] = <<"public_key">>) =>
                    /\ storage'["public_key"] = <<Bytes(publicKey[r])>>
                    /\ storage'["config/ca_bundle"] = storage["config/ca_bundle"]
              /\ pc'[r] = "internal_error" =>
                    /\ storage' = storage
                    /\ wrote'[r] \in {<<>>, <<"public_key">>}
                    /\ wrote'[r] = <<"public_key">>
                          <=> \/ resp'[r].err = ErrJSON
                              \/ resp'[r].err = ErrPut /\ Len(puts'[r]) = 2]_vars

\* a request failed at its second Put and left its new public key next to
\* the bundle of an earlier request
C13_Witness ==
    \E r \in Reqs :
        /\ pc[r] = "internal_error"
        /\ resp[r].err = ErrPut
        /\ wrote[r] = <<"public_key">>
        /\ latest = r /\ ~overlap
        /\ storage["public_key"] = <<Bytes(publicKey[r])>>
        /\ Len(storage["config/ca_bundle"]) = 1
        /\ DecodeCertificate(storage["config/ca_bundle"][1]) # privateKey[r]

\* a step in which slot r called generateSSHKeyPair and got an error
GeneratorFailed(r) == genCalls'[r] = genCalls[r] + 1 /\ genNext' = genNext

\* C14: when generateSSHKeyPair fails on a generate path, the request returns
\* (nil, err) - an internal error, not an ErrorResponse - has issued no Put,
\* and both records are unchanged.
C14_GeneratorFailure ==
    [][\A r \in Reqs :
          GeneratorFailed(r) =>
              /\ pc'[r] = "internal_error"
              /\ resp'[r] = Return(NilResponse, ErrGenerate)
              /\ puts'[r] = <<>>
              /\ wrote'[r] = <<>>
              /\ storage' = storage]_vars

\* the generator failed for a request that ran on its own over stored records
C14_Witness ==
    \E r \in Reqs :
        /\ pc[r] = "internal_error"
        /\ resp[r].err = ErrGenerate
        /\ genCalls[r] > 0
        /\ Alone(r)
        /\ BothStored

\* the request of slot r falls in the second case of the switch with both
\* keys non-empty
BothSupplied(r) ==
    /\ req[r].generate_signing_key \in {"unset", "false"}
    /\ req[r].public_key # Empty
    /\ req[r].private_key # Empty

\* C15: in the second case with both keys non-empty the private key is
\* validated first: an unparseable private_key is answered "Unable to parse
\* private_key ..." whether or not public_key parses, and "Unable to parse
\* public_key ..." is the answer only when private_key parses and public_key
\* does not.
C15_PrivateKeyParsedFirst ==
    \A r \in Reqs :
        (Active(r) /\ BothSupplied(r))
        => /\ ~ParsePrivateKey(req[r].private_key)
                => (pc[r] = "rejected" /\ Message(r) = MsgParsePrivate)
           /\ Message(r) = MsgParsePublic
                <=> (ParsePrivateKey(req[r].private_key) /\ ~parsePublicSSHKey(req[r].public_key))

\* both answers were given: one request with a parseable public key and an
\* unparseable private key, one with the reverse
C15_Witness ==
    \E r, s \in Reqs :
        /\ pc[r] = "rejected" /\ pc[s] = "rejected"
        /\ BothSupplied(r) /\ BothSupplied(s)
        /\ parsePublicSSHKey(req[r].public_key) /\ Message(r) = MsgParsePrivate
        /\ ParsePrivateKey(req[s].private_key) /\ Message(s) = MsgParsePublic

\* the request of slot r supplies two parseable halves of different pairs
Mismatched(r) ==
    /\ AcceptsExternal(r)
    /\ req[r].public_key.id # req[r].private_key.id

\* C16: a parseable public_key and a parseable private_key of different key
\* pairs are accepted like a matching pair: the request is not rejected, the
\* generator is not called, and both supplied values are persisted unchanged.
C16_NoCrossValidation ==
    \A r \in Reqs :
        (Active(r) /\ Mismatched(r))
        => /\ pc[r] # "rejected"
           /\ genCalls[r] = 0
           /\ publicKey[r] = req[r].public_key
           /\ privateKey[r] = req[r].private_key
           /\ pc[r] = "internal_error" => resp[r].err \in {ErrPut, ErrJSON}
           /\ pc[r] = "done" => resp[r] = Return(NilResponse, Nil)
           /\ (pc[r] = "done" /\ Alone(r)) => Holds(req[r].public_key, req[r].private_key)

\* a mismatched pair was accepted and is what storage holds
C16_Witness ==
    \E r \in Reqs :
        /\ pc[r] = "done"
        /\ Alone(r)
        /\ Mismatched(r)
        /\ Holds(ExtPub(1), ExtPriv(2))

\* no handler is between its dispatch and its return
NoneRunning == \A r \in Reqs : ~Running(r)

\* C17: records are never deleted - once "public_key" (or "config/ca_bundle")
\* exists it exists in every later state - and each successful write
\* overwrites them: after any sequence of non-concurrent requests without
\* storage failure the two records are the pair of the most recent
\* successful request (and are absent while none has succeeded).
C17_OverwrittenNeverDeleted ==
    /\ [][\A k \in StorageKeys : storage[k] # <<>> => storage'[k] # <<>>]_vars
    /\ []((serial /\ NoneRunning) =>
            IF lastPair = <<>>
            THEN \A k \in StorageKeys : storage[k] = <<>>
            ELSE Holds(lastPair[1], lastPair[2]))

\* two requests succeeded one after the other with different pairs, and the
\* records are the pair of the second
C17_Witness ==
    \E r, s \in Reqs :
        /\ serial
        /\ NoneRunning
        /\ pc[s] = "done"
        /\ pc[r] = "done"
        /\ latest = r
        /\ publicKey[r] # publicKey[s]
        /\ privateKey[r] # privateKey[s]
        /\ lastPair = <<publicKey[r], privateKey[r]>>

\* C18: the error "failed to generate or parse the keys" is never returned:
\* a request that leaves the switch without generateSigningKey carries two
\* non-empty supplied keys, and a successful generateSSHKeyPair returns two
\* non-empty strings, so the check of line 103 never fires.
C18_InvariantErrorUnreachable ==
    \A r \in Reqs :
        /\ resp[r].err # ErrInvariant
        /\ (pc[r] = "generate" /\ ~generateSigningKey[r])
              => (publicKey[r] # Empty /\ privateKey[r] # Empty)
        /\ Resolved(r) => (publicKey[r] # Empty /\ privateKey[r] # Empty)

\* the check of line 103 was passed by a generated pair and by a supplied pair
C18_Witness ==
    \E r, s \in Reqs :
        /\ pc[r] = "put_public" /\ genCalls[r] > 0
        /\ pc[s] = "put_public" /\ genCalls[s] = 0

\* how far a slot is in the handler
Rank(p) ==
    CASE p = "idle" -> 0
      [] p = "generate" -> 1
      [] p = "put_public" -> 2
      [] p = "put_bundle" -> 3
      [] OTHER -> 4

\* C19: every request ends in exactly one of done (empty success, after both
\* Puts), rejected (ErrorResponse, before any Put) or internal_error, given
\* that the generator and the storage calls return; the handler only moves
\* forward (no retry, no loop) and its next step never waits for another
\* request.
C19_RequestTerminates ==
    /\ \A r \in Reqs : [](Running(r) => <>Returned(r))
    /\ [](\A r \in Reqs :
            /\ pc[r] = "done"
                  <=> (resp[r] = Return(NilResponse, Nil) /\ wrote[r] = <<"public_key", "config/ca_bundle">>)
            /\ pc[r] = "rejected"
                  <=> (~resp[r].response.isNil /\ resp[r].err = Nil)
            /\ pc[r] = "rejected" => puts[r] = <<>>
            /\ pc[r] = "internal_error"
                  <=> (resp[r].response.isNil /\ resp[r].err \notin {Nil, "none"})
            /\ Running(r) => ENABLED (Generate(r) \/ PutPublic(r) \/ PutBundle(r)))
    /\ [][\A r \in Reqs :
            (~Returned(r) /\ pc'[r] # pc[r]) => Rank(pc'[r]) > Rank(pc[r])]_vars

\* one request has ended in each of the two outcomes that follow a Put, while
\* the two ran at the same time
C19_Witness ==
    \E r, s \in Reqs :
        /\ overlap
        /\ pc[r] = "done"
        /\ pc[s] = "internal_error"
        /\ puts[s] # <<>>

====
